---- MODULE Spec2Model ----
(***************************************************************************)
(* Models of the puzzle solutions of the repository (22/day05, day06,      *)
(* day07, day10, day11, day12, day13) and of the main of every script.     *)
(* The scripts are independent, so every script has its own variables,     *)
(* its own initial predicate and its own specification; a specification    *)
(* leaves the variables of the other scripts at their idle values.         *)
(***************************************************************************)
EXTENDS Integers, Sequences, FiniteSets, TLC

VARIABLES
    \* 22/day13
    left_item, right_item, cmp_result, is_sorted, pc13,
    \* 22/day6
    datastream, num_non_repeating_characters, slice_start_index, result6, pc6,
    \* 22/day12
    heightmap, start_position_index, goal_position_index, steps, index_queue,
    result12, pc12,
    \* 22/day10
    instructions, first_cycle_to_report, cycle_to_report_increment,
    instruction_index, num_cycles_processed, register_value,
    next_cycle_to_report, yielded, pc10,
    \* 22/day11
    monkeys, is_part_2, num_rounds, round_index, monkey_index, inspect_calls,
    result11, pc11,
    \* 22/day5
    crate_configuration_1, crate_configuration_2, command, commands_done,
    raised_1, raised_2,
    \* 22/day7
    total_directory_sizes, current_filepath, lines_read, listed, relisted,
    left_root, total_disk_space, needed_disk_space, result7, pc7,
    \* main of every script, and part_2 of 22/day10
    script, statement, stdout, sprite_positions, crt_rows, current_crt_row,
    pcMain

vars13 == <<left_item, right_item, cmp_result, is_sorted, pc13>>
vars6 == <<datastream, num_non_repeating_characters, slice_start_index, result6, pc6>>
vars12 == <<heightmap, start_position_index, goal_position_index, steps,
            index_queue, result12, pc12>>
vars10 == <<instructions, first_cycle_to_report, cycle_to_report_increment,
            instruction_index, num_cycles_processed, register_value,
            next_cycle_to_report, yielded, pc10>>
vars11 == <<monkeys, is_part_2, num_rounds, round_index, monkey_index,
            inspect_calls, result11, pc11>>
vars5 == <<crate_configuration_1, crate_configuration_2, command, commands_done,
           raised_1, raised_2>>
vars7 == <<total_directory_sizes, current_filepath, lines_read, listed, relisted,
           left_root, total_disk_space, needed_disk_space, result7, pc7>>
varsMain == <<script, statement, stdout, sprite_positions, crt_rows,
              current_crt_row, pcMain>>
vars == <<vars13, vars6, vars12, vars10, vars11, vars5, vars7, varsMain>>

Idle13 ==
    /\ left_item = 0 /\ right_item = 0 /\ cmp_result = 0
    /\ is_sorted = FALSE /\ pc13 = "idle"

Idle6 ==
    /\ datastream = <<>> /\ num_non_repeating_characters = 0
    /\ slice_start_index = 0 /\ result6 = 0 /\ pc6 = "idle"

Idle12 ==
    /\ heightmap = <<>> /\ start_position_index = <<0, 0>>
    /\ goal_position_index = <<0, 0>> /\ steps = <<>> /\ index_queue = <<>>
    /\ result12 = 0 /\ pc12 = "idle"

Idle10 ==
    /\ instructions = <<>> /\ first_cycle_to_report = 0
    /\ cycle_to_report_increment = 0 /\ instruction_index = 0
    /\ num_cycles_processed = 0 /\ register_value = 0
    /\ next_cycle_to_report = 0 /\ yielded = <<>> /\ pc10 = "idle"

Idle11 ==
    /\ monkeys = <<>> /\ is_part_2 = FALSE /\ num_rounds = 0 /\ round_index = 0
    /\ monkey_index = 0 /\ inspect_calls = <<>> /\ result11 = 0 /\ pc11 = "idle"

Idle5 ==
    /\ crate_configuration_1 = <<>> /\ crate_configuration_2 = <<>>
    /\ command = 0 /\ commands_done = 0 /\ raised_1 = FALSE /\ raised_2 = FALSE

Idle7 ==
    /\ total_directory_sizes = <<>> /\ current_filepath = <<>> /\ lines_read = 0
    /\ listed = {} /\ relisted = FALSE /\ left_root = FALSE
    /\ total_disk_space = 0 /\ needed_disk_space = 0 /\ result7 = 0
    /\ pc7 = "idle"

IdleMain ==
    /\ script = "" /\ statement = 0 /\ stdout = <<>> /\ sprite_positions = <<>>
    /\ crt_rows = <<>> /\ current_crt_row = <<>> /\ pcMain = "idle"

\* What each script leaves alone: the variables of the other scripts.
Frame13 == UNCHANGED <<vars6, vars12, vars10, vars11, vars5, vars7, varsMain>>
Frame6 == UNCHANGED <<vars13, vars12, vars10, vars11, vars5, vars7, varsMain>>
Frame12 == UNCHANGED <<vars13, vars6, vars10, vars11, vars5, vars7, varsMain>>
Frame10 == UNCHANGED <<vars13, vars6, vars12, vars11, vars5, vars7, varsMain>>
Frame11 == UNCHANGED <<vars13, vars6, vars12, vars10, vars5, vars7, varsMain>>
Frame5 == UNCHANGED <<vars13, vars6, vars12, vars10, vars11, vars7, varsMain>>
Frame7 == UNCHANGED <<vars13, vars6, vars12, vars10, vars11, vars5, varsMain>>

\* Generic helpers -----------------------------------------------------------

\* All sequences over S of length 0..n.
SeqsUpTo(S, n) == UNION {[1..k -> S] : k \in 0..n}

Min2(a, b) == IF a <= b THEN a ELSE b

(***************************************************************************)
(* 22/day13: packets and pairwise_comparison                               *)
(***************************************************************************)

\* Largest integer inside a packet, longest list, deepest nesting.
MaxInt == 1
MaxLen == 2
MaxDepth == 2

\* A packet is a Python int or a Python list of packets.
IntPacket(n) == [isInt |-> TRUE, val |-> n, items |-> <<>>]
ListPacket(s) == [isInt |-> FALSE, val |-> 0, items |-> s]

RECURSIVE PacketsOfDepth(_)
PacketsOfDepth(d) ==
    IF d = 0
    THEN {IntPacket(n) : n \in 0..MaxInt}
    ELSE {IntPacket(n) : n \in 0..MaxInt}
         \cup {ListPacket(s) : s \in SeqsUpTo(PacketsOfDepth(d - 1), MaxLen)}

Packets == PacketsOfDepth(MaxDepth)

\* Python's `item == []`: true of the empty list only (an int never equals []).
IsEmptyList(item) == ~item.isInt /\ item.items = <<>>

RECURSIVE pairwise_comparison(_, _)
pairwise_comparison(left, right) ==
    IF IsEmptyList(right) /\ IsEmptyList(left) THEN 1
    ELSE IF IsEmptyList(right) THEN -1
    ELSE IF IsEmptyList(left) THEN 1
    ELSE IF left.isInt /\ right.isInt
    THEN (IF left.val < right.val THEN 1
          ELSE IF left.val > right.val THEN -1
          ELSE 0)
    ELSE IF left.isInt
    THEN pairwise_comparison(ListPacket(<<left>>), right)
    ELSE IF right.isInt
    THEN pairwise_comparison(left, ListPacket(<<right>>))
    ELSE
        LET left_element == Head(left.items)
            left_tail == ListPacket(Tail(left.items))
            right_element == Head(right.items)
            right_tail == ListPacket(Tail(right.items))
        IN  IF IsEmptyList(left_element) /\ IsEmptyList(right_element)
            THEN (IF IsEmptyList(left_tail) /\ IsEmptyList(right_tail)
                  THEN 1
                  ELSE pairwise_comparison(left_tail, right_tail))
            ELSE
                LET element_comparison ==
                        pairwise_comparison(left_element, right_element)
                IN  IF element_comparison # 0
                    THEN element_comparison
                    ELSE pairwise_comparison(left_tail, right_tail)

is_pair_sorted(left, right) == pairwise_comparison(left, right) \in {0, 1}

Init13 ==
    /\ Idle6 /\ Idle12 /\ Idle10 /\ Idle11 /\ Idle5 /\ Idle7 /\ IdleMain
    /\ left_item \in Packets
    /\ right_item \in Packets
    /\ cmp_result = 0
    /\ is_sorted = FALSE
    /\ pc13 = "start"

Compare13 ==
    /\ pc13 = "start"
    /\ cmp_result' = pairwise_comparison(left_item, right_item)
    /\ pc13' = "compared"
    /\ UNCHANGED <<left_item, right_item, is_sorted>>
    /\ Frame13

IsPairSorted13 ==
    /\ pc13 = "compared"
    /\ is_sorted' = is_pair_sorted(left_item, right_item)
    /\ pc13' = "done"
    /\ UNCHANGED <<left_item, right_item, cmp_result>>
    /\ Frame13

Next13 == Compare13 \/ IsPairSorted13

Spec13 == Init13 /\ [][Next13]_vars

\* The packet order of the puzzle, in the convention of the docstring:
\* 1 when left < right, 0 when they compare equal, -1 when left > right.
RECURSIVE PacketOrder(_, _)
PacketOrder(left, right) ==
    IF left.isInt /\ right.isInt
    THEN (IF left.val < right.val THEN 1
          ELSE IF left.val > right.val THEN -1 ELSE 0)
    ELSE IF left.isInt THEN PacketOrder(ListPacket(<<left>>), right)
    ELSE IF right.isInt THEN PacketOrder(left, ListPacket(<<right>>))
    ELSE IF left.items = <<>> /\ right.items = <<>> THEN 0
    ELSE IF left.items = <<>> THEN 1
    ELSE IF right.items = <<>> THEN -1
    ELSE LET c == PacketOrder(Head(left.items), Head(right.items))
         IN  IF c # 0 THEN c
             ELSE PacketOrder(ListPacket(Tail(left.items)),
                              ListPacket(Tail(right.items)))

\* C1: pairwise_comparison returns 0 iff the packets compare equal, 1 iff
\* left is smaller and -1 iff left is larger under the packet order.
C1_ComparisonIsPacketOrder ==
    pc13 \in {"compared", "done"} =>
        cmp_result = PacketOrder(left_item, right_item)

(***************************************************************************)
(* 22/day6: find_non_repeating_characters                                  *)
(***************************************************************************)

MaxStreamLen == 4
MaxMarkerLen == 3
Characters == {"a", "b", "c"}

\* Python's datastream[a:b] for 0 <= a <= b: the end is clipped to the length.
Slice(s, a, b) == SubSeq(s, a + 1, Min2(b, Len(s)))

\* len(chars) == len(set(chars))
AllDistinctAlways(chars) == Len(chars) >= Cardinality({chars[i] : i \in DOMAIN chars})
AllDistinct(chars) == Len(chars) = Cardinality({chars[i] : i \in DOMAIN chars})

Init6 ==
    /\ Idle13 /\ Idle12 /\ Idle10 /\ Idle11 /\ Idle5 /\ Idle7 /\ IdleMain
    /\ datastream \in SeqsUpTo(Characters, MaxStreamLen)
    /\ num_non_repeating_characters \in 1..MaxMarkerLen
    /\ slice_start_index = 0
    /\ result6 = 0
    /\ pc6 = "loop"

\* One iteration of the for loop: return the slice end, or go on.
LoopIteration6 ==
    /\ pc6 = "loop"
    /\ slice_start_index < Len(datastream)
    /\ LET slice_end_index == slice_start_index + num_non_repeating_characters
           chars == Slice(datastream, slice_start_index, slice_end_index)
       IN  IF AllDistinct(chars)
           THEN /\ result6' = slice_end_index
                /\ pc6' = "returned"
                /\ UNCHANGED slice_start_index
           ELSE /\ slice_start_index' = slice_start_index + 1
                /\ UNCHANGED <<result6, pc6>>
    /\ UNCHANGED <<datastream, num_non_repeating_characters>>
    /\ Frame6

\* The range is exhausted: raise ValueError.
RaiseValueError6 ==
    /\ pc6 = "loop"
    /\ slice_start_index >= Len(datastream)
    /\ pc6' = "raised"
    /\ UNCHANGED <<datastream, num_non_repeating_characters, slice_start_index, result6>>
    /\ Frame6

Next6 == LoopIteration6 \/ RaiseValueError6

Spec6 == Init6 /\ [][Next6]_vars

\* The characters datastream[e - n : e] are pairwise different.
PairwiseDifferent(s, e, n) ==
    \A i, j \in (e - n + 1)..e : i # j => s[i] # s[j]

\* The ends e of the full runs of n pairwise different characters.
RunEnds(s, n) == {e \in n..Len(s) : PairwiseDifferent(s, e, n)}

\* C4: when the datastream contains a run of n different characters, the
\* result is the smallest end e of such a run.
C4_ReturnsFirstMarker ==
    (pc6 \in {"returned", "raised"}
        /\ RunEnds(datastream, num_non_repeating_characters) # {}) =>
        /\ pc6 = "returned"
        /\ result6 \in RunEnds(datastream, num_non_repeating_characters)
        /\ \A e \in RunEnds(datastream, num_non_repeating_characters) : result6 <= e

\* A marker found after at least one window with a repeated character.
C4_Witness ==
    /\ pc6 = "returned"
    /\ RunEnds(datastream, num_non_repeating_characters) # {}
    /\ slice_start_index >= 1
    /\ num_non_repeating_characters >= 2

\* C5: a non-empty datastream without a run of n pairwise different
\* characters makes the function raise ValueError.
C5_RaisesWithoutMarker ==
    (pc6 \in {"returned", "raised"}
        /\ datastream # <<>>
        /\ RunEnds(datastream, num_non_repeating_characters) = {}) =>
        pc6 = "raised"

(***************************************************************************)
(* 22/day12: breadth_first_height_search and part_2                        *)
(***************************************************************************)

\* math.inf, as a number larger than every step count of the model.
Inf == 999999

\* Most cells of a heightmap of the search; longest run of letters put in
\* front of the ladder b..y E in a heightmap of part_2.
MaxCells == 4
MaxPrefixLen == 3

Alphabet == <<"a", "b", "c", "d", "e", "f", "g", "h", "i", "j", "k", "l", "m",
              "n", "o", "p", "q", "r", "s", "t", "u", "v", "w", "x", "y", "z">>

\* Python's ord() on a lower-case letter.
Ord(letter) == 96 + (CHOOSE i \in 1..Len(Alphabet) : Alphabet[i] = letter)

NumRows(hm) == Len(hm)
NumColumns(hm) == Len(hm[1])

\* heightmap[row_index][column_index], indices counted from 0.
LetterAt(hm, row_index, column_index) == hm[row_index + 1][column_index + 1]

\* All (row_index, column_index) in the order of the nested comprehension.
AllPositions(hm) ==
    [k \in 1..(NumRows(hm) * NumColumns(hm)) |->
        <<(k - 1) \div NumColumns(hm), (k - 1) % NumColumns(hm)>>]

positions_with_elevation_letter(hm, elevation_letter) ==
    SelectSeq(AllPositions(hm),
              LAMBDA p : LetterAt(hm, p[1], p[2]) = elevation_letter)

height_at_position(hm, row_index, column_index) ==
    LET letter_at_position == LetterAt(hm, row_index, column_index)
    IN  IF letter_at_position = "S" THEN Ord("a")
        ELSE IF letter_at_position = "E" THEN Ord("z")
        ELSE Ord(letter_at_position)

StepOffsets == <<<<1, 0>>, <<-1, 0>>, <<0, 1>>, <<0, -1>>>>

\* The condition under which a neighbour is given a step count and queued.
MayVisitNoClimb(hm, st, current, new) ==
    /\ 0 <= new[1] /\ new[1] < NumRows(hm)
    /\ 0 <= new[2] /\ new[2] < NumColumns(hm)
    /\ st[new[1] + 1][new[2] + 1] = Inf
    /\ height_at_position(hm, new[1], new[2])
          <= height_at_position(hm, current[1], current[2])

MayVisit(hm, st, current, new) ==
    /\ 0 <= new[1] /\ new[1] < NumRows(hm)
    /\ 0 <= new[2] /\ new[2] < NumColumns(hm)
    /\ st[new[1] + 1][new[2] + 1] = Inf
    /\ height_at_position(hm, new[1], new[2])
          <= height_at_position(hm, current[1], current[2]) + 1

\* The for loop over the four offsets, from offset k on: the step counts and
\* the queue it leaves.
RECURSIVE VisitOffsets(_, _, _, _, _)
VisitOffsets(hm, current, st, queue, k) ==
    IF k > Len(StepOffsets) THEN [steps |-> st, index_queue |-> queue]
    ELSE
        LET new == <<current[1] + StepOffsets[k][1], current[2] + StepOffsets[k][2]>>
        IN  IF MayVisit(hm, st, current, new)
            THEN VisitOffsets(
                    hm, current,
                    [st EXCEPT ![new[1] + 1][new[2] + 1] =
                        st[current[1] + 1][current[2] + 1] + 1],
                    Append(queue, new), k + 1)
            ELSE VisitOffsets(hm, current, st, queue, k + 1)

\* One iteration of `while index_queue`: popleft, then the for loop.
WhileIteration(hm, st, queue) ==
    VisitOffsets(hm, Head(queue), st, Tail(queue), 1)

InitialSteps(hm, start) ==
    [[r \in 1..NumRows(hm) |-> [c \in 1..NumColumns(hm) |-> Inf]]
        EXCEPT ![start[1] + 1][start[2] + 1] = 0]

RECURSIVE RunSearch(_, _, _)
RunSearch(hm, st, queue) ==
    IF queue = <<>> THEN st
    ELSE LET after == WhileIteration(hm, st, queue)
         IN  RunSearch(hm, after.steps, after.index_queue)

breadth_first_height_search(hm, start, goal) ==
    RunSearch(hm, InitialSteps(hm, start), <<start>>)[goal[1] + 1][goal[2] + 1]

\* Heightmaps of the search: every grid of at most MaxCells cells over the
\* start letter (elevation a), b, c and the goal letter (elevation z).
SearchLetters == {"S", "b", "c", "E"}

GridShapes ==
    {sh \in (1..MaxCells) \X (1..MaxCells) : sh[1] * sh[2] <= MaxCells}

SearchHeightmaps ==
    UNION {[1..sh[1] -> [1..sh[2] -> SearchLetters]] : sh \in GridShapes}

PositionsOf(hm) == (0..(NumRows(hm) - 1)) \X (0..(NumColumns(hm) - 1))

Init12 ==
    /\ Idle13 /\ Idle6 /\ Idle10 /\ Idle11 /\ Idle5 /\ Idle7 /\ IdleMain
    /\ heightmap \in SearchHeightmaps
    /\ start_position_index \in PositionsOf(heightmap)
    /\ goal_position_index \in PositionsOf(heightmap)
    /\ steps = <<>>
    /\ index_queue = <<>>
    /\ result12 = 0
    /\ pc12 = "start"

\* Lines 116-124: the step counts and the queue before the loop.
BeginSearch12 ==
    /\ pc12 = "start"
    /\ steps' = InitialSteps(heightmap, start_position_index)
    /\ index_queue' = <<start_position_index>>
    /\ pc12' = "search"
    /\ UNCHANGED <<heightmap, start_position_index, goal_position_index, result12>>
    /\ Frame12

SearchIteration12 ==
    /\ pc12 = "search"
    /\ index_queue # <<>>
    /\ LET after == WhileIteration(heightmap, steps, index_queue)
       IN  /\ steps' = after.steps
           /\ index_queue' = after.index_queue
    /\ UNCHANGED <<heightmap, start_position_index, goal_position_index,
                   result12, pc12>>
    /\ Frame12

ReturnSteps12 ==
    /\ pc12 = "search"
    /\ index_queue = <<>>
    /\ result12' = steps[goal_position_index[1] + 1][goal_position_index[2] + 1]
    /\ pc12' = "done"
    /\ UNCHANGED <<heightmap, start_position_index, goal_position_index,
                   steps, index_queue>>
    /\ Frame12

Next12 == BeginSearch12 \/ SearchIteration12 \/ ReturnSteps12

Spec12 == Init12 /\ [][Next12]_vars

\* The elevation of a cell: its letter, 'S' counting as 'a' and 'E' as 'z'.
Elevation(hm, p) ==
    LET l == LetterAt(hm, p[1], p[2])
    IN  CASE l = "S" -> 97
          [] l = "E" -> 122
          [] OTHER -> Ord(l)

\* One step of a path: to a 4-neighbour inside the grid, at most 1 higher.
CanStep(hm, p, q) ==
    /\ q \in PositionsOf(hm)
    /\ \/ (q[1] = p[1] /\ (q[2] = p[2] + 1 \/ q[2] = p[2] - 1))
       \/ (q[2] = p[2] /\ (q[1] = p[1] + 1 \/ q[1] = p[1] - 1))
    /\ Elevation(hm, q) <= Elevation(hm, p) + 1

Neighbours4(p) ==
    {<<p[1] + 1, p[2]>>, <<p[1] - 1, p[2]>>, <<p[1], p[2] + 1>>, <<p[1], p[2] - 1>>}

\* The positions one step away from a position of P.
StepFrom(hm, P) == UNION {{q \in Neighbours4(p) : CanStep(hm, p, q)} : p \in P}

\* The least number of steps of a path from a position of Sources to `to`
\* (Inf when there is none): k, once the positions first reached by k steps
\* (frontier) hold `to`.
RECURSIVE ShortestFrom(_, _, _, _, _)
ShortestFrom(hm, reached, frontier, to, k) ==
    IF to \in frontier THEN k
    ELSE LET next == StepFrom(hm, frontier) \ reached
         IN  IF next = {} THEN Inf
             ELSE ShortestFrom(hm, reached \cup next, next, to, k + 1)

MinStepsFromAny(hm, Sources, to) == ShortestFrom(hm, Sources, Sources, to, 0)

\* The length of a shortest path (Inf when there is none).
MinSteps(hm, from, to) == MinStepsFromAny(hm, {from}, to)

Reachable(hm, from, to) == MinSteps(hm, from, to) # Inf

\* C2: when the goal is reachable, the search returns the number of steps
\* of a shortest path from start to goal.
C2_SearchReturnsMinimalSteps ==
    (pc12 = "done" /\ Reachable(heightmap, start_position_index, goal_position_index))
        => result12 = MinSteps(heightmap, start_position_index, goal_position_index)

\* A search whose shortest path goes around a cell that is too high: the
\* goal is next to the start and still three steps away.
C2_Witness ==
    /\ pc12 = "done"
    /\ Reachable(heightmap, start_position_index, goal_position_index)
    /\ result12 = 3
    /\ NumRows(heightmap) = 2
    /\ start_position_index = <<0, 0>>
    /\ goal_position_index = <<0, 1>>

\* ---- part_2 ----

\* min() of a non-empty sequence of step counts.
RECURSIVE MinOfSeq(_)
MinOfSeq(q) ==
    IF Len(q) = 1 THEN q[1] ELSE Min2(q[1], MinOfSeq(Tail(q)))

\* The step counts part_2 takes the minimum of: one search from every
\* position holding the letter 'a', to the single position holding 'E'.
part_2_step_counts(hm) ==
    LET start_position_indices == positions_with_elevation_letter(hm, "a")
        goal_position_index_ == positions_with_elevation_letter(hm, "E")[1]
    IN  [i \in 1..Len(start_position_indices) |->
            breadth_first_height_search(hm, start_position_indices[i],
                                        goal_position_index_)]

\* Heightmaps of part_2: a first row made of a short run of letters, the
\* ladder b..y and the goal E, with or without a second row of 'a' below it.
PrefixLetters == {"a", "S", "c"}

LadderRows ==
    {prefix \o SubSeq(Alphabet, 2, 25) \o <<"E">> :
        prefix \in SeqsUpTo(PrefixLetters, MaxPrefixLen) \ {<<>>}}

Part2Heightmaps ==
    {<<row>> : row \in LadderRows}
    \cup {<<row, [c \in 1..Len(row) |-> "a"]>> : row \in LadderRows}

InitPart2 ==
    /\ Idle13 /\ Idle6 /\ Idle10 /\ Idle11 /\ Idle5 /\ Idle7 /\ IdleMain
    /\ heightmap \in Part2Heightmaps
    /\ start_position_index = <<0, 0>>
    /\ goal_position_index = positions_with_elevation_letter(heightmap, "E")[1]
    /\ steps = <<>>
    /\ index_queue = <<>>
    /\ result12 = 0
    /\ pc12 = "part_2"

\* part_2 with at least one 'a' in the heightmap: the minimum is returned.
Part2Returns12 ==
    /\ pc12 = "part_2"
    /\ Len(positions_with_elevation_letter(heightmap, "a")) > 0
    /\ result12' = MinOfSeq(part_2_step_counts(heightmap))
    /\ pc12' = "done"
    /\ UNCHANGED <<heightmap, start_position_index, goal_position_index,
                   steps, index_queue>>
    /\ Frame12

\* part_2 without any 'a': min() of an empty sequence raises ValueError.
Part2Raises12 ==
    /\ pc12 = "part_2"
    /\ Len(positions_with_elevation_letter(heightmap, "a")) = 0
    /\ pc12' = "raised"
    /\ UNCHANGED <<heightmap, start_position_index, goal_position_index,
                   steps, index_queue, result12>>
    /\ Frame12

NextPart2 == Part2Returns12 \/ Part2Raises12

SpecPart2 == InitPart2 /\ [][NextPart2]_vars

\* The positions of elevation 'a': the letter 'a' and the start cell 'S'.
ElevationAPositions(hm) == {p \in PositionsOf(hm) : Elevation(hm, p) = 97}

\* C3: part_2 returns the minimum, over the positions of elevation 'a'
\* (the start cell 'S' included), of the minimal number of steps to 'E'.
C3_Part2IsMinimumOverElevationA ==
    (pc12 \in {"done", "raised"} /\ ElevationAPositions(heightmap) # {}) =>
        /\ pc12 = "done"
        /\ result12 = MinStepsFromAny(heightmap, ElevationAPositions(heightmap),
                                      goal_position_index)

(***************************************************************************)
(* 22/day10: report_cycle_values                                           *)
(***************************************************************************)

MaxInstructions == 4
MaxFirstCycle == 3
MaxIncrement == 2
AddxValues == {-1, 2}

\* The dictionaries generate_instructions yields.
Noop == [name |-> "noop", num_cycles |-> 1, register_increase |-> 0]
Addx(v) == [name |-> "addx", num_cycles |-> 2, register_increase |-> v]

InstructionSet == {Noop} \cup {Addx(v) : v \in AddxValues}

\* The test of line 78 on one cycle of an instruction.
IsCycleToReportOffByOne(processed, instruction_cycle_index, next) ==
    (processed + instruction_cycle_index) - 1 = next

IsCycleToReport(processed, instruction_cycle_index, next) ==
    (processed + instruction_cycle_index) = next

\* The for loop over the cycles of one instruction, from cycle index i on:
\* what has been yielded and the next cycle to report when it ends.
RECURSIVE ReportCycles(_, _, _, _, _, _, _)
ReportCycles(i, instruction, processed, reg, next, increment, out) ==
    IF i > instruction.num_cycles
    THEN [yielded |-> out, next_cycle_to_report |-> next]
    ELSE IF IsCycleToReport(processed, i, next)
    THEN ReportCycles(i + 1, instruction, processed, reg, next + increment,
                      increment, Append(out, <<next, reg>>))
    ELSE ReportCycles(i + 1, instruction, processed, reg, next, increment, out)

Init10 ==
    /\ Idle13 /\ Idle6 /\ Idle12 /\ Idle11 /\ Idle5 /\ Idle7 /\ IdleMain
    /\ instructions \in SeqsUpTo(InstructionSet, MaxInstructions)
    /\ first_cycle_to_report \in 1..MaxFirstCycle
    /\ cycle_to_report_increment \in 0..MaxIncrement
    /\ instruction_index = 0
    /\ num_cycles_processed = 0
    /\ register_value = 1
    /\ next_cycle_to_report = first_cycle_to_report
    /\ yielded = <<>>
    /\ pc10 = "run"

\* One pass of the while loop with an instruction left in the iterator.
ProcessInstruction10 ==
    /\ pc10 = "run"
    /\ instruction_index < Len(instructions)
    /\ LET instruction == instructions[instruction_index + 1]
           after == ReportCycles(1, instruction, num_cycles_processed,
                                 register_value, next_cycle_to_report,
                                 cycle_to_report_increment, yielded)
       IN  /\ yielded' = after.yielded
           /\ next_cycle_to_report' = after.next_cycle_to_report
           /\ register_value' = register_value + instruction.register_increase
           /\ num_cycles_processed' = num_cycles_processed + instruction.num_cycles
    /\ instruction_index' = instruction_index + 1
    /\ UNCHANGED <<instructions, first_cycle_to_report,
                   cycle_to_report_increment, pc10>>
    /\ Frame10

\* StopIteration: the generator ends.
EndOfInstructions10 ==
    /\ pc10 = "run"
    /\ instruction_index = Len(instructions)
    /\ pc10' = "done"
    /\ UNCHANGED <<instructions, first_cycle_to_report, cycle_to_report_increment,
                   instruction_index, num_cycles_processed, register_value,
                   next_cycle_to_report, yielded>>
    /\ Frame10

Next10 == ProcessInstruction10 \/ EndOfInstructions10

Spec10 == Init10 /\ [][Next10]_vars

RECURSIVE SumCycles(_, _)
SumCycles(ins, n) ==
    IF n = 0 THEN 0 ELSE SumCycles(ins, n - 1) + ins[n].num_cycles

\* The cycle during which instruction n completes.
EndCycle(ins, n) == SumCycles(ins, n)

TotalCycles(ins) == SumCycles(ins, Len(ins))

\* The register during cycle c: 1 plus the increases of the instructions
\* that completed before cycle c.
RECURSIVE RegisterDuring(_, _, _)
RegisterDuring(ins, c, n) ==
    IF n = 0 THEN 1
    ELSE RegisterDuring(ins, c, n - 1)
         + (IF EndCycle(ins, n) < c THEN ins[n].register_increase ELSE 0)

\* The cycles to report: first + k * increment, up to the last cycle.
CyclesToReport ==
    {c \in 1..TotalCycles(instructions) :
        \E k \in 0..TotalCycles(instructions) :
            c = first_cycle_to_report + k * cycle_to_report_increment}

\* C7: the generator yields, in increasing order and once each, the pairs
\* (c, X_c) of the cycles c to report, X_c the register during cycle c.
C7_YieldsEveryReportCycleOnce ==
    pc10 = "done" =>
        /\ \A i \in 1..Len(yielded) :
              /\ yielded[i][1] \in CyclesToReport
              /\ yielded[i][2] =
                    RegisterDuring(instructions, yielded[i][1], Len(instructions))
        /\ \A i, j \in 1..Len(yielded) : i < j => yielded[i][1] < yielded[j][1]
        /\ \A c \in CyclesToReport : \E i \in 1..Len(yielded) : yielded[i][1] = c

\* Two cycles reported, the second one the second cycle of an addx that
\* follows a completed addx.
C7_Witness ==
    /\ pc10 = "done"
    /\ Len(yielded) >= 2
    /\ yielded[Len(yielded)][2] # 1
    /\ \E n \in 1..Len(instructions) :
          /\ instructions[n].name = "addx"
          /\ EndCycle(instructions, n) = yielded[Len(yielded)][1]

(***************************************************************************)
(* 22/day11: Monkey and run_monkey_simulation                              *)
(***************************************************************************)

MaxMonkeys == 2
MaxRounds == 2
\* Cap on the inspections of one monkey: a monkey that throws to itself may
\* never end its turn.
MaxInspections == 12

\* Operation, operand (<<>> for None, `old`) and divisor, by monkey index.
MonkeyOps == <<"mul", "add", "mul">>
MonkeyOpValues == <<<<>>, <<1>>, <<2>>>>
MonkeyDivisors == <<2, 3, 2>>
KindOf(i) == ((i - 1) % Len(MonkeyOps)) + 1

\* The items a monkey may hold at the start.
ItemLists == {<<>>, <<1>>, <<2, 3>>}

Monkey(items, op, op_value, divisor, throw_to_index_if_true, throw_to_index_if_false) ==
    [items |-> items, op |-> op, op_value |-> op_value, divisor |-> divisor,
     throw_to_index_if_true |-> throw_to_index_if_true,
     throw_to_index_if_false |-> throw_to_index_if_false,
     num_inspections |-> 0]

\* The lists of n monkeys whose throw targets are indices of the list.
MonkeyLists(n) ==
    {[i \in 1..n |->
        Monkey(choice[i][1], MonkeyOps[KindOf(i)], MonkeyOpValues[KindOf(i)],
               MonkeyDivisors[KindOf(i)], choice[i][2], choice[i][3])] :
     choice \in [1..n -> ItemLists \X (0..(n - 1)) \X (0..(n - 1))]}

Apply(op, a, b) == IF op = "add" THEN a + b ELSE a * b

\* Monkey.inspect, on the leftmost item: the worry level returned.
inspect(monkey) ==
    LET item == Head(monkey.items)
    IN  IF monkey.op_value = <<>>
        THEN Apply(monkey.op, item, item)
        ELSE Apply(monkey.op, item, monkey.op_value[1])

RECURSIVE Gcd(_, _)
Gcd(a, b) == IF b = 0 THEN a ELSE Gcd(b, a % b)

RECURSIVE LcmOfDivisors(_, _)
LcmOfDivisors(ms, n) ==
    IF n = 0 THEN 1
    ELSE LET l == LcmOfDivisors(ms, n - 1)
         IN  (l * ms[n].divisor) \div Gcd(l, ms[n].divisor)

\* Line 96: the inspections counted at the start of a turn.
CountedAtTurnStart(num_inspections, items) == num_inspections + Len(items)

\* sorted(..., reverse=True), by insertion.
RECURSIVE InsertDescending(_, _)
InsertDescending(x, q) ==
    IF q = <<>> THEN <<x>>
    ELSE IF x >= Head(q) THEN <<x>> \o q
    ELSE <<Head(q)>> \o InsertDescending(x, Tail(q))

RECURSIVE SortedDescending(_)
SortedDescending(q) ==
    IF q = <<>> THEN <<>>
    ELSE InsertDescending(Head(q), SortedDescending(Tail(q)))

Init11 ==
    /\ Idle13 /\ Idle6 /\ Idle12 /\ Idle10 /\ Idle5 /\ Idle7 /\ IdleMain
    /\ \E n \in 2..MaxMonkeys : monkeys \in MonkeyLists(n)
    /\ is_part_2 \in BOOLEAN
    /\ num_rounds = MaxRounds
    /\ round_index = 0
    /\ monkey_index = 0
    /\ inspect_calls = [i \in 1..Len(monkeys) |-> 0]
    /\ result11 = 0
    /\ pc11 = "turn"

\* Line 95-96: the next monkey's turn starts; its items are counted.
StartTurn11 ==
    /\ pc11 = "turn"
    /\ round_index < num_rounds
    /\ monkeys' = [monkeys EXCEPT ![monkey_index + 1].num_inspections =
                      CountedAtTurnStart(@, monkeys[monkey_index + 1].items)]
    /\ pc11' = "while"
    /\ UNCHANGED <<is_part_2, num_rounds, round_index, monkey_index,
                   inspect_calls, result11>>
    /\ Frame11

\* Lines 98-107: one pass of `while monkey.items`.
InspectAndThrow11 ==
    /\ pc11 = "while"
    /\ monkeys[monkey_index + 1].items # <<>>
    /\ inspect_calls[monkey_index + 1] < MaxInspections
    /\ LET monkey == monkeys[monkey_index + 1]
           modulus == LcmOfDivisors(monkeys, Len(monkeys))
           item == IF is_part_2 THEN inspect(monkey) % modulus
                   ELSE inspect(monkey) \div 3
           target == IF (item % monkey.divisor) = 0
                     THEN monkey.throw_to_index_if_true
                     ELSE monkey.throw_to_index_if_false
           popped == [monkeys EXCEPT ![monkey_index + 1].items = Tail(@)]
       IN  monkeys' = [popped EXCEPT ![target + 1].items = Append(@, item)]
    /\ inspect_calls' = [inspect_calls EXCEPT ![monkey_index + 1] = @ + 1]
    /\ UNCHANGED <<is_part_2, num_rounds, round_index, monkey_index, result11, pc11>>
    /\ Frame11

\* The while loop ends: on to the next monkey, or to the next round.
EndTurn11 ==
    /\ pc11 = "while"
    /\ monkeys[monkey_index + 1].items = <<>>
    /\ IF monkey_index + 1 < Len(monkeys)
       THEN /\ monkey_index' = monkey_index + 1
            /\ UNCHANGED round_index
       ELSE /\ monkey_index' = 0
            /\ round_index' = round_index + 1
    /\ pc11' = "turn"
    /\ UNCHANGED <<monkeys, is_part_2, num_rounds, inspect_calls, result11>>
    /\ Frame11

\* Lines 109-112: the product of the two highest counts.
ReturnBusiness11 ==
    /\ pc11 = "turn"
    /\ round_index = num_rounds
    /\ LET counts == SortedDescending(
                        [i \in 1..Len(monkeys) |-> monkeys[i].num_inspections])
       IN  result11' = counts[1] * counts[2]
    /\ pc11' = "done"
    /\ UNCHANGED <<monkeys, is_part_2, num_rounds, round_index, monkey_index,
                   inspect_calls>>
    /\ Frame11

Next11 == StartTurn11 \/ InspectAndThrow11 \/ EndTurn11 \/ ReturnBusiness11

Spec11 == Init11 /\ [][Next11]_vars

\* Every count equals the number of calls of inspect(), and the result is
\* the product of the two largest numbers of calls.
CountsAreInspections ==
    /\ \A i \in 1..Len(monkeys) : monkeys[i].num_inspections = inspect_calls[i]
    /\ \E i, j \in 1..Len(monkeys) :
          /\ i # j
          /\ result11 = inspect_calls[i] * inspect_calls[j]
          /\ \A k \in 1..Len(monkeys) \ {i, j} :
                inspect_calls[k] <= inspect_calls[i] /\ inspect_calls[k] <= inspect_calls[j]

NoMonkeyThrowsToItself ==
    \A i \in 1..Len(monkeys) :
        /\ monkeys[i].throw_to_index_if_true # i - 1
        /\ monkeys[i].throw_to_index_if_false # i - 1

\* C6 as stated: for every list of monkeys whose throw targets are indices of
\* the list, at the end every num_inspections is the number of inspect()
\* calls of the monkey and the result is the product of the two largest.
C6_CountsAreInspections == pc11 = "done" => CountsAreInspections

\* The extent of the divergence of C6: the counts are right for the lists in
\* which no monkey throws to itself.
C6_CountsAreInspectionsWithoutSelfThrow ==
    (pc11 = "done" /\ NoMonkeyThrowsToItself) => CountsAreInspections

\* A finished simulation without self-throws in which a monkey inspected
\* more items than it held at the start.
C6_Witness ==
    /\ pc11 = "done"
    /\ NoMonkeyThrowsToItself
    /\ result11 > 0
    /\ \E i \in 1..Len(monkeys) : inspect_calls[i] > 2

(***************************************************************************)
(* 22/day5: the move commands of part_1 and part_2                         *)
(***************************************************************************)

NumStacks == 3
NumCrates == 3
MaxCommands == 1

CrateLetters == <<"A", "B", "C", "D", "E">>

\* The crate configurations: NumCrates different crates in NumStacks stacks,
\* every stack a sequence from bottom to top (the right end of the deque).
CrateOrders == {f \in [1..NumCrates -> 1..NumCrates] : \A i, j \in 1..NumCrates : i # j => f[i] # f[j]}

StackCuts ==
    {c \in [0..NumStacks -> 0..NumCrates] :
        /\ c[0] = 0
        /\ c[NumStacks] = NumCrates
        /\ \A i \in 1..NumStacks : c[i - 1] <= c[i]}

CrateConfigurations ==
    {[st \in 1..NumStacks |->
        [i \in 1..(c[st] - c[st - 1]) |-> CrateLetters[f[c[st - 1] + i]]]] :
     f \in CrateOrders, c \in StackCuts}

\* The commands, source and target already zero-indexed (lines 64-65).
Commands ==
    [num_crates : 1..NumCrates, source : 0..(NumStacks - 1),
     target : 0..(NumStacks - 1)]

\* part_2, lines 119-124: pop num_crates crates onto the left of
\* crates_to_move, then extend the target.  An empty source raises IndexError
\* before the target is touched.
RECURSIVE PopToLeft(_, _, _, _)
PopToLeft(cfg, source, n, crates_to_move) ==
    IF n = 0 THEN [cfg |-> cfg, crates_to_move |-> crates_to_move, raised |-> FALSE]
    ELSE IF cfg[source + 1] = <<>>
    THEN [cfg |-> cfg, crates_to_move |-> crates_to_move, raised |-> TRUE]
    ELSE LET stack == cfg[source + 1]
         IN  PopToLeft([cfg EXCEPT ![source + 1] = SubSeq(stack, 1, Len(stack) - 1)],
                       source, n - 1, <<stack[Len(stack)]>> \o crates_to_move)

part_2_move(cfg, cmd) ==
    LET popped == PopToLeft(cfg, cmd.source, cmd.num_crates, <<>>)
    IN  IF popped.raised THEN [cfg |-> popped.cfg, raised |-> TRUE]
        ELSE [cfg |-> [popped.cfg EXCEPT ![cmd.target + 1] = @ \o popped.crates_to_move],
              raised |-> FALSE]

\* part_1, lines 91-94: num_crates times, append to the target what is popped
\* from the source.  An empty source raises IndexError.
part_1_move_keeping_order(cfg, cmd) == part_2_move(cfg, cmd)

RECURSIVE MoveOneAtATime(_, _, _, _)
MoveOneAtATime(cfg, source, target, n) ==
    IF n = 0 THEN [cfg |-> cfg, raised |-> FALSE]
    ELSE IF cfg[source + 1] = <<>> THEN [cfg |-> cfg, raised |-> TRUE]
    ELSE LET stack == cfg[source + 1]
             popped == [cfg EXCEPT ![source + 1] = SubSeq(stack, 1, Len(stack) - 1)]
         IN  MoveOneAtATime(
                [popped EXCEPT ![target + 1] = Append(@, stack[Len(stack)])],
                source, target, n - 1)

part_1_move(cfg, cmd) == MoveOneAtATime(cfg, cmd.source, cmd.target, cmd.num_crates)

Init5 ==
    /\ Idle13 /\ Idle6 /\ Idle12 /\ Idle10 /\ Idle11 /\ Idle7 /\ IdleMain
    /\ crate_configuration_1 \in CrateConfigurations
    /\ crate_configuration_2 = crate_configuration_1
    /\ command = [num_crates |-> 0, source |-> 0, target |-> 0]
    /\ commands_done = 0
    /\ raised_1 = FALSE
    /\ raised_2 = FALSE

\* The next command of the file, executed by part_1 and by part_2, each on
\* its own configuration.
ExecuteCommand5 ==
    /\ commands_done < MaxCommands
    /\ ~raised_1 /\ ~raised_2
    /\ \E cmd \in Commands :
          LET after_1 == part_1_move(crate_configuration_1, cmd)
              after_2 == part_2_move(crate_configuration_2, cmd)
          IN  /\ command' = cmd
              /\ crate_configuration_1' = after_1.cfg
              /\ raised_1' = after_1.raised
              /\ crate_configuration_2' = after_2.cfg
              /\ raised_2' = after_2.raised
    /\ commands_done' = commands_done + 1
    /\ Frame5

Next5 == ExecuteCommand5

Spec5 == Init5 /\ [][Next5]_vars

Reversed(q) == [i \in 1..Len(q) |-> q[Len(q) + 1 - i]]
TopCrates(stack, k) == SubSeq(stack, Len(stack) - k + 1, Len(stack))
WithoutTop(stack, k) == SubSeq(stack, 1, Len(stack) - k)

\* C8: a move of k crates from stack s to another stack t, k at most the
\* size of s, leaves the former top k crates of s on top of t, reversed in
\* part_1 and in their order in part_2, and takes them off s.
C8_MoveSemantics ==
    [][LET s == command'.source + 1
           t == command'.target + 1
           k == command'.num_crates
       IN  (s # t /\ k <= Len(crate_configuration_1[s])) =>
              /\ ~raised_1' /\ ~raised_2'
              /\ crate_configuration_1'[t] =
                    crate_configuration_1[t] \o Reversed(TopCrates(crate_configuration_1[s], k))
              /\ crate_configuration_1'[s] = WithoutTop(crate_configuration_1[s], k)
              /\ crate_configuration_2'[t] =
                    crate_configuration_2[t] \o TopCrates(crate_configuration_2[s], k)
              /\ crate_configuration_2'[s] = WithoutTop(crate_configuration_2[s], k)
    ]_vars

\* A move of several crates between two stacks has been executed, and the
\* two parts now differ.
C8_Witness ==
    /\ commands_done >= 1
    /\ command.num_crates >= 2
    /\ command.source # command.target
    /\ ~raised_1 /\ ~raised_2
    /\ crate_configuration_1 # crate_configuration_2
    /\ Len(crate_configuration_1[command.target + 1]) > command.num_crates

(***************************************************************************)
(* 22/day7: directory_sizes and part_2                                     *)
(***************************************************************************)

MaxLines == 5

root_directory_name == "/"

\* An input line, as the tokens line.split() gives.
DirectoryNames == {"a", "b"}
NumeralTokens == <<"1", "2", "3">>

InputLines ==
    {<<"$", "ls">>, <<"$", "cd", root_directory_name>>, <<"$", "cd", "..">>,
     <<"dir", "a">>, <<"1", "f">>, <<"2", "g">>}
    \cup {<<"$", "cd", d>> : d \in DirectoryNames}

TotalDiskSpaces == {4, 6}
NeededDiskSpaces == {3, 5}

\* int() of a numeral token.
IntOf(token) == CHOOSE n \in 1..Len(NumeralTokens) : NumeralTokens[n] = token

\* line.startswith("$ ls"), line.startswith("$ cd"), re.match(number_regex, line)
StartsWithLs(line) == Len(line) >= 2 /\ line[1] = "$" /\ line[2] = "ls"
StartsWithCd(line) == Len(line) >= 2 /\ line[1] = "$" /\ line[2] = "cd"
StartsWithNumber(line) == \E n \in 1..Len(NumeralTokens) : NumeralTokens[n] = line[1]

\* "/".join(names), a string being the sequence of its characters.
RECURSIVE JoinWithSlash(_)
JoinWithSlash(names) ==
    IF names = <<>> THEN <<>>
    ELSE IF Len(names) = 1 THEN <<names[1]>>
    ELSE <<names[1], "/">> \o JoinWithSlash(Tail(names))

\* str.replace("//", "/"): left to right, occurrences not overlapping.
RECURSIVE ReplaceDoubleSlash(_)
ReplaceDoubleSlash(str) ==
    IF Len(str) < 2 THEN str
    ELSE IF str[1] = "/" /\ str[2] = "/"
    THEN <<"/">> \o ReplaceDoubleSlash(SubSeq(str, 3, Len(str)))
    ELSE <<str[1]>> \o ReplaceDoubleSlash(Tail(str))

directory_path(filepath, i) == ReplaceDoubleSlash(JoinWithSlash(SubSeq(filepath, 1, i + 1)))

\* defaultdict(int): a missing key reads as 0.
SizeOf(sizes, key) == IF key \in DOMAIN sizes THEN sizes[key] ELSE 0

AddSize(sizes, key, file_size) ==
    [k \in DOMAIN sizes \cup {key} |->
        IF k = key THEN SizeOf(sizes, key) + file_size ELSE sizes[k]]

\* Lines 71-73: the file size is added to the directories on the stack, from
\* index i on.
RECURSIVE AddToParents(_, _, _, _)
AddToParents(sizes, filepath, file_size, i) ==
    IF i >= Len(filepath) THEN sizes
    ELSE AddToParents(AddSize(sizes, directory_path(filepath, i), file_size),
                      filepath, file_size, i + 1)

\* Line 148-150.
SpaceToFreeUpWithoutRoot(root_size, needed, total) == needed - total
SpaceToFreeUp(root_size, needed, total) == root_size + needed - total

RECURSIVE MinOfSet(_)
MinOfSet(S) ==
    LET x == CHOOSE y \in S : TRUE
    IN  IF S = {x} THEN x ELSE Min2(x, MinOfSet(S \ {x}))

Init7 ==
    /\ Idle13 /\ Idle6 /\ Idle12 /\ Idle10 /\ Idle11 /\ Idle5 /\ IdleMain
    /\ total_directory_sizes = <<>>
    /\ current_filepath = <<root_directory_name>>
    /\ lines_read = 0
    /\ listed = {}
    /\ relisted = FALSE
    /\ left_root = FALSE
    /\ total_disk_space \in TotalDiskSpaces
    /\ needed_disk_space \in NeededDiskSpaces
    /\ result7 = 0
    /\ pc7 = "start"

Static7 == UNCHANGED <<total_disk_space, needed_disk_space>>

\* part_2, lines 140-141.
RaiseValueError7 ==
    /\ pc7 = "start"
    /\ needed_disk_space > total_disk_space
    /\ pc7' = "value_error"
    /\ UNCHANGED <<total_directory_sizes, current_filepath, lines_read, listed,
                   relisted, left_root, result7>>
    /\ Static7 /\ Frame7

\* part_2, line 143: directory_sizes starts reading the lines.
StartReading7 ==
    /\ pc7 = "start"
    /\ ~(needed_disk_space > total_disk_space)
    /\ pc7' = "reading"
    /\ UNCHANGED <<total_directory_sizes, current_filepath, lines_read, listed,
                   relisted, left_root, result7>>
    /\ Static7 /\ Frame7

CanRead7 == pc7 = "reading" /\ lines_read < MaxLines

\* "$ ls" (line 55) and every other line that is no command and starts with
\* no number (line 74): skipped.
SkipLine7 ==
    /\ CanRead7
    /\ \E line \in InputLines :
          \/ StartsWithLs(line)
          \/ (~StartsWithCd(line) /\ ~StartsWithNumber(line))
    /\ lines_read' = lines_read + 1
    /\ UNCHANGED <<total_directory_sizes, current_filepath, listed, relisted,
                   left_root, result7, pc7>>
    /\ Static7 /\ Frame7

\* "$ cd /" (lines 58-59).
CdRoot7 ==
    /\ CanRead7
    /\ \E line \in InputLines :
          /\ ~StartsWithLs(line) /\ StartsWithCd(line)
          /\ line = <<"$", "cd", root_directory_name>>
          /\ current_filepath' = <<root_directory_name>>
    /\ lines_read' = lines_read + 1
    /\ UNCHANGED <<total_directory_sizes, listed, relisted, left_root, result7, pc7>>
    /\ Static7 /\ Frame7

\* "$ cd .." (lines 60-61); pop() of an empty list raises IndexError.
CdUp7 ==
    /\ CanRead7
    /\ \E line \in InputLines :
          /\ ~StartsWithLs(line) /\ StartsWithCd(line)
          /\ line # <<"$", "cd", root_directory_name>>
          /\ line = <<"$", "cd", "..">>
    /\ IF current_filepath = <<>>
       THEN /\ pc7' = "index_error"
            /\ UNCHANGED <<current_filepath, left_root>>
       ELSE /\ current_filepath' = SubSeq(current_filepath, 1, Len(current_filepath) - 1)
            /\ left_root' = (left_root \/ Len(current_filepath) = 1)
            /\ UNCHANGED pc7
    /\ lines_read' = lines_read + 1
    /\ UNCHANGED <<total_directory_sizes, listed, relisted, result7>>
    /\ Static7 /\ Frame7

\* "$ cd <name>" (lines 62-64).
CdDirectory7 ==
    /\ CanRead7
    /\ \E line \in InputLines :
          /\ ~StartsWithLs(line) /\ StartsWithCd(line)
          /\ line # <<"$", "cd", root_directory_name>>
          /\ line # <<"$", "cd", "..">>
          /\ current_filepath' = Append(current_filepath, line[Len(line)])
    /\ lines_read' = lines_read + 1
    /\ UNCHANGED <<total_directory_sizes, listed, relisted, left_root, result7, pc7>>
    /\ Static7 /\ Frame7

\* "<size> <name>" (lines 65-73).  listed and relisted record which files
\* the input has shown, and whether one was shown twice.
FileLine7 ==
    /\ CanRead7
    /\ \E line \in InputLines :
          /\ ~StartsWithLs(line) /\ ~StartsWithCd(line) /\ StartsWithNumber(line)
          /\ LET file_size == IntOf(line[1])
                 file == [dir |-> current_filepath, name |-> line[2], size |-> file_size]
             IN  /\ total_directory_sizes' =
                        AddToParents(total_directory_sizes, current_filepath, file_size, 0)
                 /\ listed' = listed \cup {file}
                 /\ relisted' = (relisted \/ file \in listed)
    /\ lines_read' = lines_read + 1
    /\ UNCHANGED <<current_filepath, left_root, result7, pc7>>
    /\ Static7 /\ Frame7

\* The input ends: part_2, lines 148-157.  Reading the size of the root adds
\* the root to the defaultdict.
ReturnMinimum7 ==
    /\ pc7 = "reading"
    /\ LET root_key == <<root_directory_name>>
           all_directory_sizes == AddSize(total_directory_sizes, root_key, 0)
           space_to_free_up == SpaceToFreeUp(all_directory_sizes[root_key],
                                             needed_disk_space, total_disk_space)
           relevant == {all_directory_sizes[k] : k \in
                           {d \in DOMAIN all_directory_sizes :
                               all_directory_sizes[d] >= space_to_free_up}}
       IN  /\ total_directory_sizes' = all_directory_sizes
           /\ result7' = MinOfSet(relevant)
    /\ pc7' = "done"
    /\ UNCHANGED <<current_filepath, lines_read, listed, relisted, left_root>>
    /\ Static7 /\ Frame7

Next7 ==
    \/ RaiseValueError7 \/ StartReading7 \/ SkipLine7 \/ CdRoot7 \/ CdUp7
    \/ CdDirectory7 \/ FileLine7 \/ ReturnMinimum7

Spec7 == Init7 /\ [][Next7]_vars

IsPrefix(p, q) == Len(p) <= Len(q) /\ SubSeq(q, 1, Len(p)) = p

\* The directories the input has shown files in, with all their parents.
Directories ==
    {SubSeq(f.dir, 1, k) : <<f, k>> \in
        {fk \in listed \X (1..(MaxLines + 1)) : fk[2] <= Len(fk[1].dir)}}

\* The files in a directory, directly or in any of its subdirectories.
FilesUnder(dir) == {f \in listed : IsPrefix(dir, f.dir)}

RECURSIVE SumOfSizes(_)
SumOfSizes(files) ==
    IF files = {} THEN 0
    ELSE LET f == CHOOSE g \in files : TRUE
         IN  f.size + SumOfSizes(files \ {f})

\* The path of a directory as a string: "/" for the root, "/a/b" below it.
RECURSIVE SlashNames(_)
SlashNames(names) ==
    IF names = <<>> THEN <<>> ELSE <<"/", names[1]>> \o SlashNames(Tail(names))

PathOf(dir) ==
    IF dir = <<root_directory_name>> THEN <<"/">>
    ELSE IF dir[1] = root_directory_name THEN SlashNames(Tail(dir))
    ELSE Tail(SlashNames(dir))

\* The directory sizes are the sums of the sizes of the files below; the
\* root holds the total; no directory is smaller than a subdirectory.
SizesAreSums ==
    /\ DOMAIN total_directory_sizes = {PathOf(d) : d \in Directories}
    /\ \A d \in Directories :
          total_directory_sizes[PathOf(d)] = SumOfSizes(FilesUnder(d))
    /\ listed # {} =>
          /\ <<"/">> \in DOMAIN total_directory_sizes
          /\ total_directory_sizes[<<"/">>] = SumOfSizes(listed)
    /\ \A d1, d2 \in Directories :
          IsPrefix(d1, d2) =>
              total_directory_sizes[PathOf(d1)] >= total_directory_sizes[PathOf(d2)]

\* C9 as stated: after every sequence of lines, every mapped size is the sum
\* of the sizes of the files in the directory or below it, the root holds
\* the total of all files, and no directory is smaller than a subdirectory.
C9_SizesAreSums == pc7 = "reading" => SizesAreSums

\* The extent of the divergence of C9: the sizes are right for the inputs that
\* list no file twice and never issue "$ cd .." in the root directory.
C9_SizesAreSumsOfWellFormedInput ==
    (pc7 = "reading" /\ ~relisted /\ ~left_root) => SizesAreSums

\* Files listed in a subdirectory and, after "$ cd ..", in its parent.
C9_Witness ==
    /\ pc7 = "reading" /\ ~relisted /\ ~left_root
    /\ \E f, g \in listed : Len(f.dir) = 2 /\ Len(g.dir) = 1
    /\ current_filepath = <<root_directory_name>>
    /\ total_directory_sizes[<<"/">>] = 3

\* The sizes d whose deletion leaves at least needed_disk_space free.
EnoughWhenDeleted ==
    {total_directory_sizes[k] : k \in
        {d \in DOMAIN total_directory_sizes :
            total_disk_space - (total_directory_sizes[<<"/">>] - total_directory_sizes[d])
                >= needed_disk_space}}

\* C10: part_2 raises ValueError when needed_disk_space > total_disk_space,
\* and otherwise returns the smallest directory size whose deletion leaves
\* at least needed_disk_space free.
C10_SmallestSufficientDirectory ==
    /\ pc7 \notin {"start", "idle"} =>
          (pc7 = "value_error" <=> needed_disk_space > total_disk_space)
    /\ pc7 = "done" =>
          /\ result7 \in EnoughWhenDeleted
          /\ \A d \in EnoughWhenDeleted : result7 <= d

\* part_2 returned the size of a directory that is neither the smallest one
\* nor the root.
C10_Witness ==
    /\ pc7 = "done"
    /\ result7 < total_directory_sizes[<<"/">>]
    /\ \E k \in DOMAIN total_directory_sizes : total_directory_sizes[k] < result7

(***************************************************************************)
(* The main of every script: what it writes to standard output             *)
(***************************************************************************)

\* The longest instruction pattern and the most repetitions of it in an input
\* of 22/day10.
MaxPatternLen == 2
MaxRepeats == 30

\* The cycles of one row of the CRT (22/day10, line 148).
CrtWidth == 40

NewLine == "\n"

\* The arguments of a print call: a string literal or the call of a part.
Label(text) == [kind |-> "label", text |-> text, part |-> 0]
PartCall(part) == [kind |-> "part", text |-> "", part |-> part]

\* The print statements of every script, in the order they are executed.
\* src/22/day1/python/solution.py, lines 104-105.
main_22_day1 ==
    <<<<Label("PART 1:"), PartCall(1)>>,
      <<Label("PART 2:"), PartCall(2)>>>>

\* src/22/day10/python/solution.py, lines 158-160.
main_22_day10 ==
    <<<<Label("Part 1:"), PartCall(1)>>,
      <<Label("Part 2:")>>,
      <<PartCall(2)>>>>

\* src/22/day11/python/solution.py, lines 218-219.
main_22_day11 ==
    <<<<Label("Part 1:"), PartCall(1)>>,
      <<Label("Part 2:"), PartCall(2)>>>>

\* src/22/day12/python/solution.py, lines 231-232.
main_22_day12 ==
    <<<<Label("Part 1:"), PartCall(1)>>,
      <<Label("Part 2:"), PartCall(2)>>>>

\* src/22/day13/python/solution.py, lines 188-189.
main_22_day13 ==
    <<<<PartCall(1)>>,
      <<PartCall(2)>>>>

\* src/22/day16/python/solution.py, lines 327-328.
main_22_day16 ==
    <<<<Label("Part 1:"), PartCall(1)>>,
      <<Label("Part 2:"), PartCall(2)>>>>

\* src/22/day19/python/solution.py, lines 344-345.
main_22_day19 ==
    <<<<Label("Part 1:"), PartCall(1)>>,
      <<Label("Part 2:"), PartCall(2)>>>>

\* src/22/day2/python/solution.py, lines 114-115.
main_22_day2 ==
    <<<<PartCall(1)>>,
      <<PartCall(2)>>>>

\* src/22/day25/python/solution.py, lines 146-147.
main_22_day25 ==
    <<<<Label("Part 1:"), PartCall(1)>>,
      <<Label("Part 2: There is no part 2 :(")>>>>

\* src/22/day3/python/solution.py, lines 73-74.
main_22_day3 ==
    <<<<PartCall(1)>>,
      <<PartCall(2)>>>>

\* src/22/day4/python/solution.py, lines 59-60.
main_22_day4 ==
    <<<<PartCall(1)>>,
      <<PartCall(2)>>>>

\* src/22/day5/python/solution.py, lines 131-132.
main_22_day5 ==
    <<<<Label("PART 1:"), PartCall(1)>>,
      <<Label("PART 2:"), PartCall(2)>>>>

\* src/22/day6/python/solution.py, lines 59-60.
main_22_day6 ==
    <<<<Label("PART 1:"), PartCall(1)>>,
      <<Label("PART 2:"), PartCall(2)>>>>

\* src/22/day7/python/solution.py, lines 161-162.
main_22_day7 ==
    <<<<Label("Part 1:"), PartCall(1)>>,
      <<Label("Part 1:"), PartCall(2)>>>>

\* src/22/day8/python/solution.py, lines 174-175.
main_22_day8 ==
    <<<<PartCall(1)>>,
      <<PartCall(2)>>>>

\* src/22/day9/python/solution.py, lines 221-222.
main_22_day9 ==
    <<<<PartCall(1)>>,
      <<PartCall(2)>>>>

\* src/23/day01/solution.py, lines 100-101.
main_23_day01 ==
    <<<<Label("PART 1:"), PartCall(1)>>,
      <<Label("PART 2:"), PartCall(2)>>>>

\* src/23/day02/solution.py, lines 145-146.
main_23_day02 ==
    <<<<Label("PART 1:"), PartCall(1)>>,
      <<Label("PART 2:"), PartCall(2)>>>>

\* src/23/day03/solution.py, lines 163-164.
main_23_day03 ==
    <<<<Label("PART1:"), PartCall(1)>>,
      <<Label("PART2:"), PartCall(2)>>>>

\* src/23/day04/solution.py, lines 124-125.
main_23_day04 ==
    <<<<Label("PART 1:"), PartCall(1)>>,
      <<Label("PART 2:"), PartCall(2)>>>>

\* src/23/day06/solution.py, lines 102-103.
main_23_day06 ==
    <<<<Label("PART 1:"), PartCall(1)>>,
      <<Label("PART 2:"), PartCall(2)>>>>

\* src/23/day09/solution.py, lines 96-97.
main_23_day09 ==
    <<<<Label("PART 1:"), PartCall(1)>>,
      <<Label("PART 2:"), PartCall(2)>>>>

Scripts == {"22/day1", "22/day10", "22/day11", "22/day12",
            "22/day13", "22/day16", "22/day19", "22/day2",
            "22/day25", "22/day3", "22/day4", "22/day5",
            "22/day6", "22/day7", "22/day8", "22/day9",
            "23/day01", "23/day02", "23/day03", "23/day04",
            "23/day06", "23/day09"}

main_statements(s) ==
    CASE s = "22/day1" -> main_22_day1
      [] s = "22/day10" -> main_22_day10
      [] s = "22/day11" -> main_22_day11
      [] s = "22/day12" -> main_22_day12
      [] s = "22/day13" -> main_22_day13
      [] s = "22/day16" -> main_22_day16
      [] s = "22/day19" -> main_22_day19
      [] s = "22/day2" -> main_22_day2
      [] s = "22/day25" -> main_22_day25
      [] s = "22/day3" -> main_22_day3
      [] s = "22/day4" -> main_22_day4
      [] s = "22/day5" -> main_22_day5
      [] s = "22/day6" -> main_22_day6
      [] s = "22/day7" -> main_22_day7
      [] s = "22/day8" -> main_22_day8
      [] s = "22/day9" -> main_22_day9
      [] s = "23/day01" -> main_23_day01
      [] s = "23/day02" -> main_23_day02
      [] s = "23/day03" -> main_23_day03
      [] s = "23/day04" -> main_23_day04
      [] s = "23/day06" -> main_23_day06
      [] s = "23/day09" -> main_23_day09

\* What the parts return: a number, or a string as its characters.
IntValue(n) == [type |-> "int", int |-> n, chars |-> <<>>]
StrValue(chars) == [type |-> "str", int |-> 0, chars |-> chars]

\* The values a part may return on well-formed input: the top crates of
\* 22/day5 and the SNAFU number of 22/day25 are strings, every other part
\* returns a number (part_2 of 22/day10 returns the CRT image, computed below).
part_results(s, part) ==
    IF s = "22/day5"
    THEN {StrValue(<<>>), StrValue(<<"C", "M", "Z">>)}
    ELSE IF s = "22/day25" /\ part = 1
    THEN {StrValue(<<"0">>), StrValue(<<"2", "=", "-", "1">>)}
    ELSE {IntValue(0), IntValue(13)}

\* Python's str() of a returned value, as a sequence of pieces of text.
str(value) == IF value.type = "int" THEN <<ToString(value.int)>> ELSE value.chars

\* separator.join(texts)
RECURSIVE JoinWith(_, _)
JoinWith(separator, texts) ==
    IF texts = <<>> THEN <<>>
    ELSE IF Len(texts) = 1 THEN texts[1]
    ELSE texts[1] \o separator \o JoinWith(separator, Tail(texts))

\* print(*texts): the texts separated by a space, then the end of the line.
print_without_end(texts) == JoinWith(<<" ">>, texts)
print(texts) == JoinWith(<<" ">>, texts) \o <<NewLine>>

\* The texts an argument of a print call may evaluate to.
ArgTexts(s, arg) ==
    IF arg.kind = "label" THEN {<<arg.text>>}
    ELSE {str(value) : value \in part_results(s, arg.part)}

\* The texts of the arguments of a print statement of one or two arguments.
StatementTexts(s, st) ==
    IF Len(st) = 1
    THEN {<<a>> : a \in ArgTexts(s, st[1])}
    ELSE {<<a, b>> : a \in ArgTexts(s, st[1]), b \in ArgTexts(s, st[2])}

\* print(part_2()) of 22/day10, line 160.
CallsCrtImage(s, st) == s = "22/day10" /\ st = <<PartCall(2)>>

\* 22/day10 part_2, lines 144-150: the cycles instruction_cycle_index..
\* num_cycles of one instruction draw a character each; a row is complete
\* when the cycle is a multiple of CrtWidth.
RECURSIVE DrawCycles(_, _, _, _, _, _)
DrawCycles(instruction_cycle_index, instruction, processed, sprite, rows, row) ==
    IF instruction_cycle_index > instruction.num_cycles
    THEN [crt_rows |-> rows, current_crt_row |-> row]
    ELSE
        LET crt_char ==
                IF \E i \in DOMAIN sprite : sprite[i] = Len(row) THEN "#" ELSE "."
            drawn == Append(row, crt_char)
        IN  IF (processed + instruction_cycle_index) % CrtWidth = 0
            THEN DrawCycles(instruction_cycle_index + 1, instruction, processed,
                            sprite, Append(rows, drawn), <<>>)
            ELSE DrawCycles(instruction_cycle_index + 1, instruction, processed,
                            sprite, rows, drawn)

\* The inputs of 22/day10: an instruction pattern repeated.
RECURSIVE Repeat(_, _)
Repeat(pattern, k) == IF k = 0 THEN <<>> ELSE pattern \o Repeat(pattern, k - 1)

Programs ==
    {Repeat(pattern, k) :
        pattern \in SeqsUpTo(InstructionSet, MaxPatternLen) \ {<<>>},
        k \in 0..MaxRepeats}

FrameMain ==
    UNCHANGED <<vars13, vars6, vars12, vars11, vars5, vars7,
                first_cycle_to_report, cycle_to_report_increment,
                register_value, next_cycle_to_report, yielded, pc10>>

InitMain ==
    /\ Idle13 /\ Idle6 /\ Idle12 /\ Idle11 /\ Idle5 /\ Idle7
    /\ script \in Scripts
    /\ instructions \in (IF script = "22/day10" THEN Programs ELSE {<<>>})
    /\ first_cycle_to_report = 0 /\ cycle_to_report_increment = 0
    /\ instruction_index = 0 /\ num_cycles_processed = 0 /\ register_value = 0
    /\ next_cycle_to_report = 0 /\ yielded = <<>> /\ pc10 = "idle"
    /\ statement = 0
    /\ stdout = <<>>
    /\ sprite_positions = <<>>
    /\ crt_rows = <<>>
    /\ current_crt_row = <<>>
    /\ pcMain = "main"

\* A print statement whose arguments are string literals and numbers or
\* strings returned by a part.
PrintStatementMain ==
    /\ pcMain = "main"
    /\ statement < Len(main_statements(script))
    /\ LET st == main_statements(script)[statement + 1]
       IN  /\ ~CallsCrtImage(script, st)
           /\ \E texts \in StatementTexts(script, st) :
                 stdout' = stdout \o print(texts)
    /\ statement' = statement + 1
    /\ UNCHANGED <<script, instructions, instruction_index, num_cycles_processed,
                   sprite_positions, crt_rows, current_crt_row, pcMain>>
    /\ FrameMain

\* 22/day10 line 160 calls part_2: lines 129-136.
CallPart2Main ==
    /\ pcMain = "main"
    /\ statement < Len(main_statements(script))
    /\ CallsCrtImage(script, main_statements(script)[statement + 1])
    /\ num_cycles_processed' = 0
    /\ sprite_positions' = <<0, 1, 2>>
    /\ crt_rows' = <<>>
    /\ current_crt_row' = <<>>
    /\ instruction_index' = 0
    /\ pcMain' = "part_2"
    /\ UNCHANGED <<script, instructions, statement, stdout>>
    /\ FrameMain

\* One iteration of the while loop of part_2, lines 138-153.
DrawInstructionMain ==
    /\ pcMain = "part_2"
    /\ instruction_index < Len(instructions)
    /\ LET instruction == instructions[instruction_index + 1]
           after == DrawCycles(1, instruction, num_cycles_processed,
                               sprite_positions, crt_rows, current_crt_row)
       IN  /\ crt_rows' = after.crt_rows
           /\ current_crt_row' = after.current_crt_row
           /\ sprite_positions' =
                 [i \in DOMAIN sprite_positions |->
                     sprite_positions[i] + instruction.register_increase]
           /\ num_cycles_processed' = num_cycles_processed + instruction.num_cycles
    /\ instruction_index' = instruction_index + 1
    /\ UNCHANGED <<script, instructions, statement, stdout, pcMain>>
    /\ FrameMain

\* StopIteration: part_2 returns "\n".join(crt_rows), which line 160 prints.
ReturnImageMain ==
    /\ pcMain = "part_2"
    /\ instruction_index = Len(instructions)
    /\ stdout' = stdout \o print(<<JoinWith(<<NewLine>>, crt_rows)>>)
    /\ statement' = statement + 1
    /\ pcMain' = "main"
    /\ UNCHANGED <<script, instructions, instruction_index, num_cycles_processed,
                   sprite_positions, crt_rows, current_crt_row>>
    /\ FrameMain

\* The script has run to completion.
ExitMain ==
    /\ pcMain = "main"
    /\ statement = Len(main_statements(script))
    /\ pcMain' = "done"
    /\ UNCHANGED <<script, instructions, instruction_index, num_cycles_processed,
                   statement, stdout, sprite_positions, crt_rows, current_crt_row>>
    /\ FrameMain

NextMain ==
    \/ PrintStatementMain
    \/ CallPart2Main
    \/ DrawInstructionMain
    \/ ReturnImageMain
    \/ ExitMain

SpecMain == InitMain /\ [][NextMain]_vars

\* The lines written: the ends of line in the text.
NumLines(text) == Cardinality({i \in DOMAIN text : text[i] = NewLine})

\* Every line written is complete.
EndsWithNewLine(text) == text # <<>> /\ text[Len(text)] = NewLine

\* The completed rows of the CRT: one per CrtWidth cycles of the input.
CompletedRows(ins) == TotalCycles(ins) \div CrtWidth

====
